---- MODULE Spec2Model ----
(***************************************************************************)
(* Model of image_ocr_extraction.py: main(file_path) classifies a path,    *)
(* extracts raw text by OCR (image or PDF), asks a generative model for a  *)
(* JSON record (extract_structured_data), asks a second conversational    *)
(* exchange to validate it (validate_extracted_data) and prints the        *)
(* result.                                                                 *)
(*                                                                         *)
(* Text is a sequence of lexemes (strings): punctuation, JSON literals,    *)
(* whitespace and chunks of other text.  A JSON value is a record          *)
(* [t, s, kv]: t its type, s the content of a string, kv the members of an *)
(* object (k the key) or the items of a list (k = "").                     *)
(* External calls (OpenCV, Tesseract, pdf2image, Gemini, autogen) return   *)
(* any value of their result type, or raise.                               *)
(***************************************************************************)
EXTENDS Integers, Sequences, FiniteSets, TLC

\* ------------------------------------------------------------------ bounds
MaxReplyLen == 5
MaxHistory == 3
MaxPages == 2

\* ------------------------------------------------------------------- text
\* Whitespace lexemes: a blank, a newline, one indentation step.
WS == {" ", "\n", "    "}

Quote(s) == "\"" \o s \o "\""

\* The strings that occur inside string literals of the texts considered.
LitStrings ==
  { "error", "Name", "PAN", "DOB", "Asha Rao", "ABCDE1234F", "12/05/1991",
    "File not found!", "Unsupported file format!" }

IsStrLit(tok) == \E s \in LitStrings : tok = Quote(s)

Unquote(tok) == CHOOSE s \in LitStrings : tok = Quote(s)

Texts(A, n) == UNION {[1..k -> A] : k \in 0..n}

IsBlank(text) == \A i \in 1..Len(text) : text[i] \in WS

\* str.strip(): drops leading and trailing whitespace.
Strip(text) ==
  IF IsBlank(text) THEN <<>>
  ELSE LET first == CHOOSE i \in 1..Len(text) :
                      text[i] \notin WS /\ \A j \in 1..(i - 1) : text[j] \in WS
           last  == CHOOSE i \in 1..Len(text) :
                      text[i] \notin WS /\ \A j \in (i + 1)..Len(text) : text[j] \in WS
       IN SubSeq(text, first, last)

\* str.lower() on the characters of a path.
LowerChar(c) ==
  CASE c = "P" -> "p" [] c = "N" -> "n" [] c = "G" -> "g" [] c = "J" -> "j"
    [] c = "E" -> "e" [] c = "D" -> "d" [] c = "F" -> "f" [] c = "T" -> "t"
    [] c = "X" -> "x" [] c = "A" -> "a"
    [] OTHER -> c

Lower(path) == [i \in 1..Len(path) |-> LowerChar(path[i])]

\* str.endswith(suffix)
EndsWith(s, suffix) ==
  /\ Len(suffix) <= Len(s)
  /\ SubSeq(s, Len(s) - Len(suffix) + 1, Len(s)) = suffix

\* ------------------------------------------------------------ JSON values
JNull == [t |-> "null", s |-> "", kv |-> <<>>]
JNum == [t |-> "num", s |-> "1", kv |-> <<>>]
JStr(x) == [t |-> "str", s |-> x, kv |-> <<>>]
JList(items) == [t |-> "list", s |-> "", kv |-> items]
JObj(members) == [t |-> "obj", s |-> "", kv |-> members]
Pair(key, val) == [k |-> key, v |-> val]

IsMapping(v) == v.t = "obj"
Keys(v) == {v.kv[i].k : i \in 1..Len(v.kv)}
HasKey(v, key) == IsMapping(v) /\ key \in Keys(v)

\* {"error": msg}
ErrorMap(msg) == JObj(<<Pair("error", JStr(msg))>>)

\* dict assignment d[key] = val: an existing key keeps its place, last value wins.
PutMember(members, key, val) ==
  IF \E i \in 1..Len(members) : members[i].k = key
  THEN [i \in 1..Len(members) |->
          IF members[i].k = key THEN Pair(key, val) ELSE members[i]]
  ELSE Append(members, Pair(key, val))

\* ------------------------------------------------------------- json.loads
SkipWs(toks, i) ==
  IF \E j \in i..Len(toks) : toks[j] \notin WS
  THEN CHOOSE j \in i..Len(toks) :
         toks[j] \notin WS /\ \A m \in i..(j - 1) : toks[m] \in WS
  ELSE Len(toks) + 1

Fail == [ok |-> FALSE, v |-> JNull, next |-> 0]
Got(val, nxt) == [ok |-> TRUE, v |-> val, next |-> nxt]

RECURSIVE ParseValue(_, _)
RECURSIVE ParseMembers(_, _, _)
RECURSIVE ParseItems(_, _, _)

\* A value starting exactly at toks[i]; next is the index after it.
ParseValue(toks, i) ==
  IF i > Len(toks) THEN Fail
  ELSE IF toks[i] = "null" THEN Got(JNull, i + 1)
  ELSE IF toks[i] = "1" THEN Got(JNum, i + 1)
  ELSE IF IsStrLit(toks[i]) THEN Got(JStr(Unquote(toks[i])), i + 1)
  ELSE IF toks[i] = "{" THEN
    LET j == SkipWs(toks, i + 1)
    IN IF j <= Len(toks) /\ toks[j] = "}" THEN Got(JObj(<<>>), j + 1)
       ELSE ParseMembers(toks, j, <<>>)
  ELSE IF toks[i] = "[" THEN
    LET j == SkipWs(toks, i + 1)
    IN IF j <= Len(toks) /\ toks[j] = "]" THEN Got(JList(<<>>), j + 1)
       ELSE ParseItems(toks, j, <<>>)
  ELSE Fail

\* "key" : value, then "," and another member, or "}".
ParseMembers(toks, i, acc) ==
  IF i > Len(toks) \/ ~IsStrLit(toks[i]) THEN Fail
  ELSE LET c == SkipWs(toks, i + 1)
       IN IF c > Len(toks) \/ toks[c] # ":" THEN Fail
          ELSE LET r == ParseValue(toks, SkipWs(toks, c + 1))
               IN IF ~r.ok THEN Fail
                  ELSE LET e == SkipWs(toks, r.next)
                           members == PutMember(acc, Unquote(toks[i]), r.v)
                       IN IF e > Len(toks) THEN Fail
                          ELSE IF toks[e] = "}" THEN Got(JObj(members), e + 1)
                          ELSE IF toks[e] = ","
                            THEN ParseMembers(toks, SkipWs(toks, e + 1), members)
                          ELSE Fail

ParseItems(toks, i, acc) ==
  LET r == ParseValue(toks, i)
  IN IF ~r.ok THEN Fail
     ELSE LET e == SkipWs(toks, r.next)
              items == Append(acc, Pair("", r.v))
          IN IF e > Len(toks) THEN Fail
             ELSE IF toks[e] = "]" THEN Got(JList(items), e + 1)
             ELSE IF toks[e] = "," THEN ParseItems(toks, SkipWs(toks, e + 1), items)
             ELSE Fail

\* json.loads(text): one value, surrounded by whitespace only; ok = FALSE is
\* json.JSONDecodeError.
Loads(text) ==
  LET r == ParseValue(text, SkipWs(text, 1))
  IN IF r.ok /\ SkipWs(text, r.next) > Len(text) THEN r ELSE Fail

\* ------------------------------------------------------------- json.dumps
RECURSIVE Dumps(_, _)
RECURSIVE DumpMembers(_, _, _, _)

Indent(depth) == [i \in 1..depth |-> "    "]

\* json.dumps(v, indent=4) at nesting depth `depth`.
Dumps(v, depth) ==
  CASE v.t = "null" -> <<"null">>
    [] v.t = "num" -> <<"1">>
    [] v.t = "str" -> <<Quote(v.s)>>
    [] v.t = "obj" ->
         IF v.kv = <<>> THEN <<"{", "}">>
         ELSE <<"{", "\n">> \o DumpMembers(v.kv, 1, depth + 1, TRUE)
              \o <<"\n">> \o Indent(depth) \o <<"}">>
    [] v.t = "list" ->
         IF v.kv = <<>> THEN <<"[", "]">>
         ELSE <<"[", "\n">> \o DumpMembers(v.kv, 1, depth + 1, FALSE)
              \o <<"\n">> \o Indent(depth) \o <<"]">>

DumpMembers(kv, i, depth, keyed) ==
  LET one == Indent(depth)
             \o (IF keyed THEN <<Quote(kv[i].k), ":", " ">> ELSE <<>>)
             \o Dumps(kv[i].v, depth)
  IN IF i = Len(kv) THEN one
     ELSE one \o <<",", "\n">> \o DumpMembers(kv, i + 1, depth, keyed)

PrettyJson(v) == Dumps(v, 0)

\* ---------------------------------------------------------------- regex
\* re.search(r"\{.*\}", text, re.DOTALL): from the leftmost "{" that has a "}"
\* after it, greedily to the last "}" of the text.  <<>> is no match.
RegexSearch(text) ==
  LET opens  == {i \in 1..Len(text) : text[i] = "{"}
      closes == {i \in 1..Len(text) : text[i] = "}"}
  IN IF opens = {} \/ closes = {} THEN <<>>
     ELSE LET first == CHOOSE i \in opens : \A j \in opens : i <= j
              last  == CHOOSE i \in closes : \A j \in closes : j <= i
          IN IF first < last THEN SubSeq(text, first, last) ELSE <<>>

\* ------------------------------------------------------ external inputs
\* Messages of the exceptions the external libraries raise.
Errors == {"boom"}

\* Paths handed to main, as character sequences.
Paths ==
  { <<"a", ".", "p", "n", "g">>, <<"a", ".", "P", "n", "G">>,
    <<"a", ".", "j", "p", "g">>, <<"a", ".", "J", "P", "E", "G">>,
    <<"a", ".", "j", "p", "e", "g">>, <<"a", ".", "p", "d", "f">>,
    <<"a", ".", "P", "D", "F">>, <<"a", ".", "t", "x", "t">>,
    <<"a", "p", "n", "g">>, <<"a", ".", "p", "d", "f", ".", "t", "x", "t">>,
    <<"a", ".", "p", "n", "g", "x">>, <<"a">> }

\* What pytesseract.image_to_string may return.
OcrTexts == { <<>>, <<" ", "\n">>, <<" ", "Name", " ", "\n">> }

\* Lexemes of the generative model's replies, and every reply up to the bound.
ReplyAlphabet == {"{", "}", ":", Quote("Name"), " ", "x"}
Replies == Texts(ReplyAlphabet, MaxReplyLen)

\* The record of the end-to-end scenario, as the model would write it.
AshaReply ==
  <<"{", Quote("Name"), ":", " ", Quote("Asha Rao"), ",", " ",
    Quote("PAN"), ":", " ", Quote("ABCDE1234F"), ",", " ",
    Quote("DOB"), ":", " ", Quote("12/05/1991"), "}">>

\* Replies tried when the whole pipeline runs.
ReplySamples ==
  { <<>>, <<" ", "\n">>, <<"x">>, <<"}", "x", "{">>,
    AshaReply, <<"x", "\n">> \o AshaReply \o <<"\n", "x">>,
    <<"{", Quote("Name"), ":", "1", ",", "}">>,
    <<"{", Quote("error"), ":", Quote("Name"), "}">>,
    <<"{", "}", "x", "{", "}">> }

\* A message of a chat history: message["role"], and message.get("content", "").
Msg(r, c) == [role |-> r, has_content |-> TRUE, content |-> c]
NoContentMsg(r) == [role |-> r, has_content |-> FALSE, content |-> <<>>]

Roles == {"user", "assistant"}

\* Contents a message of the exchange may carry.
Contents ==
  { <<>>, <<" ">>, <<"x">>, <<"{", "}">>, <<"[", "]">>, <<"1">>, <<"null">>,
    <<Quote("Name")>>, <<" ", "{", Quote("error"), ":", "1", "}", "\n">> }

Messages == {Msg(r, c) : r \in Roles, c \in Contents} \cup {NoContentMsg(r) : r \in Roles}

\* Every chat history up to the bound.
Histories == UNION {[1..k -> Messages] : k \in 0..MaxHistory}

\* Histories tried when the whole pipeline runs.
HistorySamples ==
  { <<>>,
    <<Msg("user", <<"{", "}">>)>>,
    <<Msg("user", <<"x">>), Msg("assistant", <<" ">>), Msg("assistant", AshaReply)>>,
    <<Msg("assistant", <<"x">>), Msg("assistant", <<"{", "}">>)>>,
    <<NoContentMsg("assistant"), Msg("assistant", <<"[", "]">>)>> }

\* ------------------------------------------------------------------ state
VARIABLES
  pc,               \* where the program is
  caller,           \* "main" when the running stage was called by main
  file_path,        \* main's argument
  file_exists,      \* whether os.path.exists(file_path)
  img,              \* extract_text_from_image: what cv2.imread returned
  raw_text,         \* main's raw_text
  prompt,           \* extract_structured_data: the prompt built from its argument
  pages,            \* extract_text_from_pdf: images not yet read
  text,             \* extract_text_from_pdf: the text so far
  response,         \* what generate_content / initiate_chat returned last
  structured_data,  \* main's structured_data
  data,             \* validate_extracted_data's argument
  chat_message,     \* the opening message handed to initiate_chat
  validated_data,   \* main's validated_data
  stdout,           \* what was printed, in order
  calls,            \* the calls made, in order
  raised            \* the message of an exception nobody caught

vars == <<pc, caller, file_path, file_exists, img, raw_text, prompt, pages, text,
          response, structured_data, data, chat_message, validated_data, stdout,
          calls, raised>>

\* A variable not yet assigned.
Unset == <<"<unset>">>
NoValue == [t |-> "unset", s |-> "", kv |-> <<>>]
NoResponse == [kind |-> "unset", text |-> <<>>, history |-> <<>>]

Printed(lbl, txt) == [label |-> lbl, text |-> txt]

Init ==
  /\ pc = "main"
  /\ caller = "main"
  /\ file_path \in Paths
  /\ file_exists \in BOOLEAN
  /\ img = "unset"
  /\ raw_text = Unset
  /\ prompt = Unset
  /\ pages = 0
  /\ text = <<>>
  /\ response = NoResponse
  /\ structured_data = NoValue
  /\ data = NoValue
  /\ chat_message = Unset
  /\ validated_data = NoValue
  /\ stdout = <<>>
  /\ calls = <<>>
  /\ raised = ""

\* An exception leaves the running function and, main catching nothing, the program.
Raise(e) ==
  /\ pc' = "crashed"
  /\ raised' = e

\* --------------------------------------------------------------- main (1)
\* The variables no step of the program assigns.
args == <<caller, file_path, file_exists>>

\* The existence check left out.
FileMissing_NoCheck == FALSE

FileMissing == ~file_exists

IsImagePath(path) ==
  \/ EndsWith(Lower(path), <<".", "p", "n", "g">>)
  \/ EndsWith(Lower(path), <<".", "j", "p", "g">>)
  \/ EndsWith(Lower(path), <<".", "j", "p", "e", "g">>)

IsPdfPath(path) == EndsWith(Lower(path), <<".", "p", "d", "f">>)

\* if not os.path.exists(file_path): print the error and return.
MainExists ==
  /\ pc = "main"
  /\ calls' = Append(calls, "os.path.exists")
  /\ IF FileMissing
     THEN /\ stdout' = Append(stdout, Printed("json", PrettyJson(ErrorMap("File not found!"))))
          /\ pc' = "done"
     ELSE /\ pc' = "classify"
          /\ UNCHANGED stdout
  /\ UNCHANGED <<args, img, raw_text, prompt, pages, text, response,
                 structured_data, data, chat_message, validated_data, raised>>

\* The if / elif / else on the extension.
MainClassify ==
  /\ pc = "classify"
  /\ IF IsImagePath(file_path)
     THEN /\ calls' = Append(calls, "extract_text_from_image")
          /\ pc' = "img_read"
          /\ UNCHANGED stdout
     ELSE IF IsPdfPath(file_path)
     THEN /\ calls' = Append(calls, "extract_text_from_pdf")
          /\ pc' = "pdf_convert"
          /\ UNCHANGED stdout
     ELSE /\ stdout' = Append(stdout, Printed("json", PrettyJson(ErrorMap("Unsupported file format!"))))
          /\ pc' = "done"
          /\ UNCHANGED calls
  /\ UNCHANGED <<args, img, raw_text, prompt, pages, text, response,
                 structured_data, data, chat_message, validated_data, raised>>

\* ------------------------------------------------------------- extractors
ImageErrorText == <<"Error: Image file not found or cannot be read.">>

PdfErrorText(e) == <<"Error extracting text from PDF: " \o e>>

\* An extractor returns to main, which holds the result in raw_text.
ReturnRaw(t) ==
  /\ raw_text' = t
  /\ pc' = "print_raw"
  /\ pages' = 0
  /\ text' = <<>>

\* The None check left out: the extractor goes on to the grayscale conversion.
ImageUnreadable_NoCheck ==
  /\ pc' = "img_gray"
  /\ calls' = Append(calls, "cv2.imread")
  /\ UNCHANGED <<raw_text, pages, text>>

\* if img is None: return the literal.
ImageUnreadable ==
  /\ ReturnRaw(ImageErrorText)
  /\ calls' = Append(Append(calls, "cv2.imread"), "return extract_text_from_image")

\* img = cv2.imread(image_path), which returns None for a file it cannot decode.
ImRead ==
  /\ pc = "img_read"
  /\ \/ /\ img' = "None"
        /\ ImageUnreadable
        /\ UNCHANGED raised
     \/ /\ img' = "image"
        /\ pc' = "img_gray"
        /\ calls' = Append(calls, "cv2.imread")
        /\ UNCHANGED <<raw_text, pages, text, raised>>
     \/ /\ \E e \in Errors : Raise(e)
        /\ calls' = Append(calls, "cv2.imread")
        /\ UNCHANGED <<img, raw_text, pages, text>>
  /\ UNCHANGED <<args, prompt, response, structured_data, data, chat_message,
                 validated_data, stdout>>

\* gray = cv2.cvtColor(img, cv2.COLOR_BGR2GRAY)
CvtColor ==
  /\ pc = "img_gray"
  /\ calls' = Append(calls, "cv2.cvtColor")
  /\ \/ pc' = "img_ocr" /\ UNCHANGED raised
     \/ \E e \in Errors : Raise(e)
  /\ UNCHANGED <<args, img, raw_text, prompt, pages, text, response,
                 structured_data, data, chat_message, validated_data, stdout>>

\* text = pytesseract.image_to_string(gray, lang="eng"); return text.strip()
ImageOcr ==
  /\ pc = "img_ocr"
  /\ \/ /\ \E t \in OcrTexts : ReturnRaw(Strip(t))
        /\ calls' = Append(Append(calls, "image_to_string"), "return extract_text_from_image")
        /\ UNCHANGED raised
     \/ /\ \E e \in Errors : Raise(e)
        /\ calls' = Append(calls, "image_to_string")
        /\ UNCHANGED <<raw_text, pages, text>>
  /\ UNCHANGED <<args, img, prompt, response, structured_data, data, chat_message,
                 validated_data, stdout>>

\* images = convert_from_path(pdf_path); text = "", inside the try.
PdfConvert ==
  /\ pc = "pdf_convert"
  /\ \/ /\ \E n \in 0..MaxPages : pages' = n
        /\ text' = <<>>
        /\ pc' = "pdf_loop"
        /\ calls' = Append(calls, "convert_from_path")
        /\ UNCHANGED raw_text
     \/ /\ \E e \in Errors : ReturnRaw(PdfErrorText(e))
        /\ calls' = Append(Append(calls, "convert_from_path"), "return extract_text_from_pdf")
  /\ UNCHANGED <<args, img, prompt, response, structured_data, data, chat_message,
                 validated_data, stdout, raised>>

\* for image in images: text += image_to_string(image, lang="eng") + "\n"
PdfOcr ==
  /\ pc = "pdf_loop"
  /\ pages > 0
  /\ \/ /\ \E t \in OcrTexts : text' = text \o t \o <<"\n">>
        /\ pages' = pages - 1
        /\ calls' = Append(calls, "image_to_string")
        /\ UNCHANGED <<pc, raw_text>>
     \/ /\ \E e \in Errors : ReturnRaw(PdfErrorText(e))
        /\ calls' = Append(Append(calls, "image_to_string"), "return extract_text_from_pdf")
  /\ UNCHANGED <<args, img, prompt, response, structured_data, data, chat_message,
                 validated_data, stdout, raised>>

\* return text.strip()
PdfReturn ==
  /\ pc = "pdf_loop"
  /\ pages = 0
  /\ ReturnRaw(Strip(text))
  /\ calls' = Append(calls, "return extract_text_from_pdf")
  /\ UNCHANGED <<args, img, prompt, response, structured_data, data, chat_message,
                 validated_data, stdout, raised>>

\* --------------------------------------------------------------- main (2)
\* The f-string: fixed instructions around the raw text.
Prompt(raw) == <<"Extract the following details ... Raw Text:">> \o raw
               \o <<"Format the response strictly as JSON ... Example: ...">>

\* print(raw_text); structured_data = extract_structured_data(raw_text), to the
\* prompt it builds first.
MainStructure ==
  /\ pc = "print_raw"
  /\ stdout' = Append(stdout, Printed("Extracted Raw Text", raw_text))
  /\ calls' = Append(calls, "extract_structured_data")
  /\ prompt' = Prompt(raw_text)
  /\ pc' = "gm_call"
  /\ UNCHANGED <<args, img, raw_text, pages, text, response, structured_data, data,
                 chat_message, validated_data, raised>>

\* ------------------------------------------------- extract_structured_data
\* What generate_content may hand back: nothing, a response whose .text
\* raises, or a response with a text.
TextResponse(r) == [kind |-> "text", text |-> r, history |-> <<>>]
EmptyResponse == [kind |-> "none", text |-> <<>>, history |-> <<>>]
BlockedResponse == [kind |-> "blocked", text |-> <<>>, history |-> <<>>]

\* extract_structured_data returns.
ReturnStructured(val) ==
  /\ structured_data' = val
  /\ pc' = IF caller = "main" THEN "validate" ELSE "returned"

\* The strip() left out.
ReplyIsEmpty_NoStrip(reply) == reply = <<>>

\* not response.text.strip()
ReplyIsEmpty(reply) == Strip(reply) = <<>>

\* Lines 66-82 on the text of a response.
StructureReply(reply) ==
  IF ReplyIsEmpty(reply) THEN ErrorMap("Gemini API returned an empty response")
  ELSE LET json_match == RegexSearch(reply)
       IN IF json_match = <<>>
          THEN ErrorMap("Gemini API returned invalid JSON format")
          ELSE IF ~Loads(json_match).ok
          THEN ErrorMap("Gemini API returned malformed JSON")
          ELSE Loads(json_match).v

\* except Exception as e
GeminiError(e) == ErrorMap("Gemini API error: " \o e)

\* model = genai.GenerativeModel("gemini-2.0-flash"), which only records the
\* model's name; response = model.generate_content(prompt), the one request,
\* and the rest of the function.
GenerateContent(replies) ==
  /\ pc = "gm_call"
  /\ calls' = calls \o <<"GenerativeModel", "generate_content",
                          "return extract_structured_data">>
  /\ \/ /\ \E e \in Errors : ReturnStructured(GeminiError(e))
        /\ UNCHANGED response
     \/ /\ response' = EmptyResponse
        /\ ReturnStructured(ErrorMap("Gemini API returned an empty response"))
     \/ /\ response' = BlockedResponse
        /\ \E e \in Errors : ReturnStructured(GeminiError(e))
     \/ \E r \in replies :
          /\ response' = TextResponse(r)
          /\ ReturnStructured(StructureReply(r))
  /\ UNCHANGED <<args, img, raw_text, prompt, pages, text, data, chat_message,
                 validated_data, stdout, raised>>

\* --------------------------------------------------------------- main (3)
\* validated_data = validate_extracted_data(structured_data), to its first print.
MainValidate ==
  /\ pc = "validate"
  /\ calls' = Append(calls, "validate_extracted_data")
  /\ data' = structured_data
  /\ stdout' = Append(stdout, Printed("Debug: Initial extracted data", <<>>))
  /\ pc' = "va_assistant"
  /\ UNCHANGED <<args, img, raw_text, prompt, pages, text, response,
                 structured_data, chat_message, validated_data, raised>>

\* ------------------------------------------------- validate_extracted_data
ChatResponse(h) == [kind |-> "chat", text |-> <<>>, history |-> h]
NoHistoryResponse == [kind |-> "nohistory", text |-> <<>>, history |-> <<>>]

\* validation_prompt = json.dumps(data, indent=4)
ValidationPrompt(d) == PrettyJson(d)

\* message.get("content", "").strip()
StrippedContent(m) == Strip(IF m.has_content THEN m.content ELSE <<>>)

RECURSIVE ScanHistory(_, _, _)
\* The for loop over chat_history from message i on; cur is extracted_content
\* so far, none meaning None.
ScanHistory(h, i, cur) ==
  IF i > Len(h) THEN cur
  ELSE IF h[i].role = "assistant"
  THEN LET c == StrippedContent(h[i])
       IN IF c # <<>> THEN [none |-> FALSE, text |-> c]
          ELSE ScanHistory(h, i + 1, [none |-> FALSE, text |-> c])
  ELSE ScanHistory(h, i + 1, cur)

\* The break left out: the last assistant message wins.
ExtractedContent_NoBreak(h) ==
  LET idx == {i \in 1..Len(h) : h[i].role = "assistant"}
  IN IF idx = {} THEN [none |-> TRUE, text |-> <<>>]
     ELSE [none |-> FALSE,
           text |-> StrippedContent(h[CHOOSE i \in idx : \A j \in idx : j <= i])]

\* extracted_content after the scan.
ExtractedContent(h) == ScanHistory(h, 1, [none |-> TRUE, text |-> <<>>])

RECURSIVE Joined(_)
\* The lexemes of a text as one string.
Joined(txt) == IF txt = <<>> THEN "" ELSE Head(txt) \o Joined(Tail(txt))

NoAssistantError == ErrorMap("Assistant did not return a valid JSON response.")

\* {"error": f"Invalid JSON response: {e}", "raw_response": extracted_content}
InvalidJsonError(content) ==
  JObj(<<Pair("error", JStr("Invalid JSON response: Expecting value")),
         Pair("raw_response", JStr(Joined(content)))>>)

\* except Exception as e
ValidationFailed(e) == ErrorMap("Validation failed: " \o e)

\* Lines 121-141 on a chat history: the value returned.
ValidateHistory(h) ==
  LET x == ExtractedContent(h)
  IN IF x.none \/ x.text = <<>> THEN NoAssistantError
     ELSE IF Loads(x.text).ok THEN Loads(x.text).v
     ELSE InvalidJsonError(x.text)

\* The prints of lines 119-140 on a chat history.
ValidatePrints(h) ==
  LET x == ExtractedContent(h)
  IN <<Printed("Raw Response:", <<>>)>>
     \o (IF x.none \/ x.text = <<>>
         THEN <<Printed("No valid content returned from assistant", <<>>)>>
         ELSE <<Printed("Extracted Content:", x.text)>>
              \o (IF Loads(x.text).ok THEN <<>>
                  ELSE <<Printed("JSON Decoding Failed:", <<>>)>>))

\* validate_extracted_data returns.
ReturnValidated(val) ==
  /\ validated_data' = val
  /\ pc' = IF caller = "main" THEN "print_final" ELSE "returned"

\* assistant = autogen.AssistantAgent(...), before the try.
NewAssistant ==
  /\ pc = "va_assistant"
  /\ calls' = Append(calls, "AssistantAgent")
  /\ \/ pc' = "va_proxy" /\ UNCHANGED raised
     \/ \E e \in Errors : Raise(e)
  /\ UNCHANGED <<args, img, raw_text, prompt, pages, text, response,
                 structured_data, data, chat_message, validated_data, stdout>>

\* user_proxy = autogen.UserProxyAgent(...), before the try.
NewUserProxy ==
  /\ pc = "va_proxy"
  /\ calls' = Append(calls, "UserProxyAgent")
  /\ \/ pc' = "va_chat" /\ UNCHANGED raised
     \/ \E e \in Errors : Raise(e)
  /\ UNCHANGED <<args, img, raw_text, prompt, pages, text, response,
                 structured_data, data, chat_message, validated_data, stdout>>

\* response = user_proxy.initiate_chat(assistant, message=validation_prompt),
\* and the rest of the function.
InitiateChat(histories) ==
  /\ pc = "va_chat"
  /\ chat_message' = ValidationPrompt(data)
  /\ calls' = Append(Append(calls, "initiate_chat"), "return validate_extracted_data")
  /\ \/ /\ \E e \in Errors : ReturnValidated(ValidationFailed(e))
        /\ UNCHANGED <<response, stdout>>
     \/ /\ response' = NoHistoryResponse
        /\ ReturnValidated(NoAssistantError)
        /\ stdout' = stdout \o ValidatePrints(<<>>)
     \/ \E h \in histories :
          /\ response' = ChatResponse(h)
          /\ ReturnValidated(ValidateHistory(h))
          /\ stdout' = stdout \o ValidatePrints(h)
  /\ UNCHANGED <<args, img, raw_text, prompt, pages, text, structured_data, data,
                 raised>>

\* --------------------------------------------------------------- main (4)
\* print(json.dumps(validated_data, indent=4))
MainPrintFinal ==
  /\ pc = "print_final"
  /\ stdout' = Append(stdout, Printed("Final Extracted Data", PrettyJson(validated_data)))
  /\ pc' = "done"
  /\ UNCHANGED <<args, img, raw_text, prompt, pages, text, response,
                 structured_data, data, chat_message, validated_data, calls, raised>>

\* ---------------------------------------------------------- specifications
\* main(file_path), the model's replies and the chat histories sampled.
Next == MainExists \/ MainClassify \/ ImRead \/ CvtColor \/ ImageOcr
        \/ PdfConvert \/ PdfOcr \/ PdfReturn \/ MainStructure
        \/ GenerateContent(ReplySamples) \/ MainValidate
        \/ NewAssistant \/ NewUserProxy \/ InitiateChat(HistorySamples)
        \/ MainPrintFinal

Spec == Init /\ [][Next]_vars

\* Raw texts an extractor may have returned.
RawTexts == {<<>>, <<"Name">>, ImageErrorText} \cup {PdfErrorText(e) : e \in Errors}

\* extract_structured_data(raw_text) on its own, for every reply up to the bound.
InitStructuring ==
  /\ pc = "gm_call"
  /\ caller = "none"
  /\ file_path = <<>>
  /\ file_exists = FALSE
  /\ img = "unset"
  /\ \E raw \in RawTexts : raw_text = raw /\ prompt = Prompt(raw)
  /\ pages = 0
  /\ text = <<>>
  /\ response = NoResponse
  /\ structured_data = NoValue
  /\ data = NoValue
  /\ chat_message = Unset
  /\ validated_data = NoValue
  /\ stdout = <<>>
  /\ calls = <<"extract_structured_data">>
  /\ raised = ""

NextStructuring == GenerateContent(Replies)

SpecStructuring == InitStructuring /\ [][NextStructuring]_vars

\* Records the structuring stage may have returned.
DataSamples ==
  { ErrorMap("Gemini API returned malformed JSON"), Loads(AshaReply).v, JObj(<<>>) }

\* validate_extracted_data(data) on its own, for every history up to the bound.
InitValidation ==
  /\ pc = "va_assistant"
  /\ caller = "none"
  /\ file_path = <<>>
  /\ file_exists = FALSE
  /\ img = "unset"
  /\ raw_text = Unset
  /\ prompt = Unset
  /\ pages = 0
  /\ text = <<>>
  /\ response = NoResponse
  /\ structured_data = NoValue
  /\ data \in DataSamples
  /\ chat_message = Unset
  /\ validated_data = NoValue
  /\ stdout = <<Printed("Debug: Initial extracted data", <<>>)>>
  /\ calls = <<"validate_extracted_data">>
  /\ raised = ""

NextValidation == NewAssistant \/ NewUserProxy \/ InitiateChat(Histories)

SpecValidation == InitValidation /\ [][NextValidation]_vars
\* -------------------------------------------------------------- properties
SupportedSuffixes ==
  { <<".", "p", "n", "g">>, <<".", "j", "p", "g">>, <<".", "j", "p", "e", "g">>,
    <<".", "p", "d", "f">> }

ImageSuffixes == SupportedSuffixes \ {<<".", "p", "d", "f">>}

HasSuffixIn(path, sufs) == \E suf \in sufs : EndsWith(Lower(path), suf)

Count(seq, c) == Cardinality({i \in 1..Len(seq) : seq[i] = c})

Occurs(seq, c) == \E i \in 1..Len(seq) : seq[i] = c

IsPrefix(a, b) == Len(a) <= Len(b) /\ a = SubSeq(b, 1, Len(a))

Finished == pc \in {"done", "crashed"}

\* C1: for a path that does not exist or whose lower-cased name has none of
\* the four supported suffixes, main makes no call but the existence check,
\* and when it returns it has printed exactly one JSON object whose only key
\* is "error".
C1_RejectedInput ==
  (~file_exists \/ ~HasSuffixIn(file_path, SupportedSuffixes)) =>
    /\ pc \in {"main", "classify", "done"}
    /\ \A i \in 1..Len(calls) : calls[i] = "os.path.exists"
    /\ pc # "done" => stdout = <<>>
    /\ pc = "done" =>
         /\ Len(stdout) = 1
         /\ stdout[1].label = "json"
         /\ Loads(stdout[1].text).ok
         /\ IsMapping(Loads(stdout[1].text).v)
         /\ Keys(Loads(stdout[1].text).v) = {"error"}

\* C1's case: main has returned on an existing file with an unsupported name.
C1_Witness ==
  /\ pc = "done"
  /\ file_exists
  /\ ~HasSuffixIn(file_path, SupportedSuffixes)
  /\ stdout = <<Printed("json", PrettyJson(ErrorMap("Unsupported file format!")))>>

StageEvents ==
  { "os.path.exists", "extract_text_from_image", "return extract_text_from_image",
    "extract_text_from_pdf", "return extract_text_from_pdf",
    "extract_structured_data", "return extract_structured_data",
    "validate_extracted_data", "return validate_extracted_data" }

IsStageEvent(c) == c \in StageEvents

ExtractorOf(path) ==
  IF HasSuffixIn(path, ImageSuffixes) THEN "extract_text_from_image"
  ELSE "extract_text_from_pdf"

ExpectedStages(path) ==
  << "os.path.exists", ExtractorOf(path), "return " \o ExtractorOf(path),
     "extract_structured_data", "return extract_structured_data",
     "validate_extracted_data", "return validate_extracted_data" >>

\* C2: on an existing file with a supported extension the stages run in the
\* order existence check, extractor, structuring, validation, final print,
\* each once and each after the previous one returned, and the generative
\* model is called exactly once.
C2_FixedOrderOnce ==
  (file_exists /\ HasSuffixIn(file_path, SupportedSuffixes)) =>
    /\ IsPrefix(SelectSeq(calls, IsStageEvent), ExpectedStages(file_path))
    /\ Count(calls, "generate_content") <= 1
    /\ Finished =>
         /\ SelectSeq(calls, IsStageEvent) = ExpectedStages(file_path)
         /\ Count(calls, "generate_content") = 1
         /\ stdout # <<>>
         /\ stdout[Len(stdout)].label = "Final Extracted Data"

\* C3: an upstream failure never short-circuits the pipeline: the text an
\* extractor returned, error string or not, is what the structuring stage
\* builds its prompt from, and a record with an "error" key is handed to the
\* validation stage unchanged, which opens the exchange with its pretty JSON.
C3_NoShortCircuit ==
  Finished =>
    /\ raw_text # Unset => prompt = Prompt(raw_text)
    /\ HasKey(structured_data, "error") =>
         /\ data = structured_data
         /\ Occurs(calls, "initiate_chat")
         /\ chat_message = PrettyJson(structured_data)

\* C4: no exception leaves a stage function, so main always ends normally.
C4_NoEscape == raised = "" /\ pc # "crashed"

\* C5: whatever raises inside the validation stage, the stage returns
\* {"error": "Validation failed: <message>"} and does not raise.
C5_ValidationCatchesAll ==
  /\ pc # "crashed"
  /\ (pc = "returned" /\ response = NoResponse) =>
       \E e \in Errors : validated_data = ValidationFailed(e)

NoBraceRegion(t) ==
  ~\E i, j \in 1..Len(t) : i < j /\ t[i] = "{" /\ t[j] = "}"

ReturnedOnText == pc = "returned" /\ response.kind = "text"

\* C6 as stated: every reply without a "{"..."}" region, the empty and the
\* whitespace-only reply included, yields the invalid-JSON-format error.
C6_NoRegionIsInvalidFormat ==
  (ReturnedOnText /\ NoBraceRegion(response.text)) =>
    structured_data = ErrorMap("Gemini API returned invalid JSON format")

\* C6 amended: a reply without a "{"..."}" region yields the
\* invalid-JSON-format error when it holds something other than whitespace,
\* and the empty-response error when it is empty or whitespace only; the stage
\* does not raise.
C6_NoRegionErrors ==
  /\ pc # "crashed"
  /\ (ReturnedOnText /\ NoBraceRegion(response.text)) =>
       structured_data =
         IF IsBlank(response.text)
         THEN ErrorMap("Gemini API returned an empty response")
         ELSE ErrorMap("Gemini API returned invalid JSON format")

\* C6's case: the stage returned on a reply with braces but no region.
C6_Witness ==
  /\ ReturnedOnText
  /\ response.text = <<"}", " ", "x", "{">>
  /\ structured_data = ErrorMap("Gemini API returned invalid JSON format")

\* A well-formed JSON object occupies t[i..j].
IsObjectAt(t, i, j) ==
  /\ i < j
  /\ t[i] = "{"
  /\ t[j] = "}"
  /\ Loads(SubSeq(t, i, j)).ok

\* The first "{" of t begins a well-formed object.
StartsObject(t) ==
  \E i, j \in 1..Len(t) :
    /\ IsObjectAt(t, i, j)
    /\ \A c \in 1..(i - 1) : t[c] # "{"

\* The first "{...}" of t: from its first "{" to the nearest "}" that closes a
\* well-formed object.
FirstObject(t) ==
  LET i == CHOOSE a \in 1..Len(t) : t[a] = "{" /\ \A c \in 1..(a - 1) : t[c] # "{"
      j == CHOOSE b \in 1..Len(t) :
             /\ IsObjectAt(t, i, b)
             /\ \A c \in 1..(b - 1) : ~IsObjectAt(t, i, c)
  IN SubSeq(t, i, j)

\* C7: when the first "{" of the reply begins a well-formed JSON object, the
\* stage returns the mapping parsed from that object, whatever text or further
\* braces follow it.
C7_FirstObjectReturned ==
  (ReturnedOnText /\ StartsObject(response.text)) =>
    structured_data = Loads(FirstObject(response.text)).v

\* C8: the validation stage returns a mapping, whatever the assistant says,
\* with raw_response beside error when the content did not parse.
C8_AlwaysMapping ==
  pc = "returned" =>
    /\ IsMapping(validated_data)
    /\ Occurs(stdout, Printed("JSON Decoding Failed:", <<>>)) =>
         Keys(validated_data) = {"error", "raw_response"}

\* C9: an existing file with an image extension, in any letter case, goes to
\* the image extractor, and when cv2.imread gives None the extractor returns
\* the literal error text with no grayscale conversion and no OCR.
C9_UnreadableImage ==
  /\ (file_exists /\ HasSuffixIn(file_path, ImageSuffixes) /\ pc \notin {"main", "classify"}) =>
       (Len(calls) >= 2 /\ calls[2] = "extract_text_from_image")
  /\ img = "None" =>
       /\ raw_text = ImageErrorText
       /\ IsPrefix(<<"os.path.exists", "extract_text_from_image", "cv2.imread",
                     "return extract_text_from_image">>, calls)
       /\ ~Occurs(calls, "cv2.cvtColor")
       /\ ~Occurs(calls, "image_to_string")

\* C9's case: an upper-case image name, undecodable, and main ran to its end.
C9_Witness ==
  /\ pc = "done"
  /\ file_path = <<"a", ".", "J", "P", "E", "G">>
  /\ img = "None"
  /\ raw_text = ImageErrorText

\* Message i is from the assistant and holds more than whitespace.
ValidAt(h, i) ==
  /\ h[i].role = "assistant"
  /\ h[i].has_content
  /\ ~IsBlank(h[i].content)

FirstValid(h) ==
  CHOOSE i \in 1..Len(h) : ValidAt(h, i) /\ \A j \in 1..(i - 1) : ~ValidAt(h, j)

ExtractedPrints ==
  {stdout[i].text : i \in {k \in 1..Len(stdout) : stdout[k].label = "Extracted Content:"}}

\* C10: the validation stage parses the content of the first assistant message
\* whose stripped content is not empty, and nothing after it; with no such
\* message, or no history, it returns the error mapping and parses nothing.
C10_FirstAssistantMessage ==
  (pc = "returned" /\ response.kind \in {"chat", "nohistory"}) =>
    LET h == response.history
    IN IF \E i \in 1..Len(h) : ValidAt(h, i)
       THEN LET c == Strip(h[FirstValid(h)].content)
            IN /\ ExtractedPrints = {c}
               /\ validated_data =
                    IF Loads(c).ok THEN Loads(c).v ELSE InvalidJsonError(c)
       ELSE /\ ExtractedPrints = {}
            /\ validated_data = NoAssistantError

\* C10's case: an assistant message with blank content, then two with
\* different contents.
C10_Witness ==
  /\ pc = "returned"
  /\ response.kind = "chat"
  /\ response.history =
       <<Msg("assistant", <<" ">>), Msg("assistant", <<"{", "}">>),
         Msg("assistant", <<"null">>)>>
  /\ validated_data = JObj(<<>>)
====
